---- MODULE Spec2Model ----
(***************************************************************************)
(* SearchLinkNode.execute of scrapegraphai/nodes/search_link_node.py as a  *)
(* state machine.  One behaviour is a node (its input selector and its     *)
(* output-key list) and a pipeline state mapping, on which the pipeline    *)
(* runner invokes execute up to MaxCalls times.  execute is followed       *)
(* statement by statement: the for-loop header, the try block with the     *)
(* regular expression, the except clause, the chain invocation, and the    *)
(* final state.update.                                                     *)
(*                                                                         *)
(* Python values are records tagged by "kind"; a str is the sequence of   *)
(* its characters (one-character strings).                                 *)
(***************************************************************************)
EXTENDS Integers, Sequences, FiniteSets, TLC

VARIABLES
    input,                  \* the input selector given to __init__
    output,                 \* the output-key list given to __init__
    state,                  \* the pipeline state mapping (the dict passed to execute)
    pc,                     \* position inside execute
    parsed_content_chunks,  \* local of execute (line 72)
    relevant_links,         \* local of execute (line 75)
    i,                      \* enumerate's index of the chunk at hand, 1-based
    chunk,                  \* the loop variable
    err,                    \* the exception execute raised, "none" if none
    ret,                    \* the value execute returned
    state0,                 \* history: the state mapping when execute was entered
    events,                 \* history: log lines, chain invocations and list extensions of this call
    prev,                   \* history: how the previous call ended
    calls                   \* number of execute calls begun

vars == <<input, output, state, pc, parsed_content_chunks, relevant_links, i,
          chunk, err, ret, state0, events, prev, calls>>

----------------------------------------------------------------------------
(* Bounds *)

MaxChunks == 2      \* longest chunk list under "doc"
MaxFrags == 2       \* text fragments (and non-text contents) in one chunk list
MaxCalls == 2       \* execute calls in one behaviour

----------------------------------------------------------------------------
(* Python values *)

None == [kind |-> "None"]
PyInt(n) == [kind |-> "int", n |-> n]
PyStr(s) == [kind |-> "str", s |-> s]
PyList(xs) == [kind |-> "list", items |-> xs]
PyDict(ks) == [kind |-> "dict", keys |-> ks]
\* an object whose __str__ raises
Unprintable == [kind |-> "Unprintable"]
\* a chunk record with a page_content attribute
Document(c) == [kind |-> "Document", page_content |-> c]
\* a chunk-like object without a page_content attribute
NoContent == [kind |-> "object"]
\* the key is not in the mapping
Absent == [kind |-> "absent"]

\* variant: iteration never fails, a scalar yielding nothing
Iterable_Scalar(v) == TRUE

\* iter(v) succeeds
Iterable(v) == v.kind \in {"list", "str", "dict"}

\* the elements iter(v) yields: a list's items, a str's characters, a dict's keys
Iter(v) ==
    CASE v.kind = "list" -> v.items
      [] v.kind = "str" -> [k \in 1..Len(v.s) |-> PyStr(<<v.s[k]>>)]
      [] v.kind = "dict" -> v.keys
      [] OTHER -> <<>>

\* chunk.page_content does not raise AttributeError
HasPageContent(c) == c.kind = "Document"

Digit(d) == CASE d = 0 -> "0" [] d = 1 -> "1" [] d = 2 -> "2" [] d = 3 -> "3"
              [] d = 4 -> "4" [] d = 5 -> "5" [] d = 6 -> "6" [] d = 7 -> "7"
              [] d = 8 -> "8" [] OTHER -> "9"

RECURSIVE Digits(_)
Digits(n) == IF n < 10 THEN <<Digit(n)>> ELSE Digits(n \div 10) \o <<Digit(n % 10)>>

RECURSIVE Join(_, _)
Join(parts, sep) ==
    IF Len(parts) = 0 THEN <<>>
    ELSE IF Len(parts) = 1 THEN parts[1]
    ELSE parts[1] \o sep \o Join(Tail(parts), sep)

\* repr(v) of a str without quotes or escapes, as it appears inside str(list)
Repr(v) == <<"'">> \o v.s \o <<"'">>

\* variant: the content is matched as it is, so all but a str raise
StrFaults_Unconverted(v) == v.kind # "str"

\* str(v) raises
StrFaults(v) == v.kind = "Unprintable"

\* str(v), the text the regular expression is applied to (line 86)
Str(v) ==
    CASE v.kind = "str" -> v.s
      [] v.kind = "int" -> IF v.n < 0 THEN <<"-">> \o Digits(-v.n) ELSE Digits(v.n)
      [] v.kind = "None" -> <<"N", "o", "n", "e">>
      [] v.kind = "list" ->
            <<"[">> \o Join([k \in 1..Len(v.items) |-> Repr(v.items[k])], <<",", " ">>) \o <<"]">>
      [] OTHER -> <<>>

----------------------------------------------------------------------------
(* re.findall(r'https?://[^\s"<>\]]+', text) *)

\* \s of a str pattern, as far as the characters of this module go
Whitespace == {" ", "\t", "\n", "\r", "\f"}

\* the characters the class [^\s"<>\]] excludes
Excluded == Whitespace \cup {"\"", "<", ">", "]"}

\* the literal lit occurs in t at position p
LitAt(t, p, lit) ==
    /\ p + Len(lit) - 1 <= Len(t)
    /\ \A k \in 1..Len(lit) : t[p + k - 1] = lit[k]

\* position after the scheme "http://" or "https://" beginning at p, 0 if there is none
SchemeEnd(t, p) ==
    IF LitAt(t, p, <<"h", "t", "t", "p", "s", ":", "/", "/">>) THEN p + 8
    ELSE IF LitAt(t, p, <<"h", "t", "t", "p", ":", "/", "/">>) THEN p + 7
    ELSE 0

\* the greedy [^...]+ : first position at or after p holding an excluded character, or Len+1
ClassEnd(t, p) ==
    IF \E k \in p..Len(t) : t[k] \in Excluded
    THEN CHOOSE k \in p..Len(t) : t[k] \in Excluded /\ \A m \in p..(k - 1) : t[m] \notin Excluded
    ELSE Len(t) + 1

\* variant: the class may match no character (* for +)
MatchEnd_EmptyClass(t, p) ==
    IF SchemeEnd(t, p) = 0 THEN 0 ELSE ClassEnd(t, SchemeEnd(t, p))

\* position after the match beginning at p, 0 if the pattern does not match at p
MatchEnd(t, p) ==
    IF SchemeEnd(t, p) = 0 \/ ClassEnd(t, SchemeEnd(t, p)) = SchemeEnd(t, p) THEN 0
    ELSE ClassEnd(t, SchemeEnd(t, p))

\* the scan of findall: leftmost match first, resumed at the match's end
FindAll(t) ==
    LET FindAllFrom[p \in 1..(Len(t) + 1)] ==
            IF p > Len(t) THEN <<>>
            ELSE IF MatchEnd(t, p) > 0
                 THEN <<SubSeq(t, p, MatchEnd(t, p) - 1)>> \o FindAllFrom[MatchEnd(t, p)]
                 ELSE FindAllFrom[p + 1]
    IN  FindAllFrom[1]

\* a list of character sequences as Python strs
AsStrs(ss) == [k \in 1..Len(ss) |-> PyStr(ss[k])]

----------------------------------------------------------------------------
(* The inputs: nodes, chunk lists and pipeline states *)

Keys == {"doc", "page", "links"}

\* text fragments chunk texts are built from: a link, a bare scheme, a link
\* character and a blank
Frags == {
    <<"h", "t", "t", "p", "s", ":", "/", "/", "b">>,
    <<"h", "t", "t", "p", ":", "/", "/">>,
    <<"x">>,
    <<" ">> }

\* the texts made of exactly n fragments
RECURSIVE TextsOf(_)
TextsOf(n) ==
    IF n = 0 THEN {<<>>}
    ELSE {f \o t : f \in Frags, t \in TextsOf(n - 1)}

\* a number, None, a list holding a link, and an object str() fails on
SampleInt == PyInt(12345)
SampleList == PyList(<<PyStr(<<"h", "t", "t", "p", ":", "/", "/", "a">>)>>)
NonText == {SampleInt, None, SampleList, Unprintable}

\* the chunks that count for c fragments
ChunksOf(c) ==
    {Document(PyStr(t)) : t \in TextsOf(c)}
        \cup (IF c = 1 THEN {Document(v) : v \in NonText} \cup {NoContent} ELSE {})

\* the lists of k chunks that count for at most b fragments together
RECURSIVE ChunkLists(_, _)
ChunkLists(k, b) ==
    IF k = 0 THEN {<<>>}
    ELSE UNION {{<<c>> \o rest : c \in ChunksOf(n), rest \in ChunkLists(k - 1, b - n)} : n \in 0..b}

ScenarioText1 ==
    <<"V", "i", "s", "i", "t", " ", "h", "t", "t", "p", "s", ":", "/", "/", "a", ".",
      "c", "o", "m", "/", "x", " ", "a", "n", "d", " ", "h", "t", "t", "p", ":", "/",
      "/", "b", ".", "o", "r", "g">>
ScenarioText2 == <<"N", "o", " ", "l", "i", "n", "k", "s", " ", "h", "e", "r", "e">>
ScenarioChunks == <<Document(PyStr(ScenarioText1)), Document(PyStr(ScenarioText2))>>

\* what the state may hold under "doc": a chunk list, or a value of another type
DocValues ==
    {PyList(cs) : cs \in UNION {ChunkLists(k, MaxFrags) : k \in 0..MaxChunks}}
        \cup {PyList(ScenarioChunks)}
        \cup {None, PyInt(5), PyStr(<<>>), PyStr(<<"x">>)}

\* what the state may hold under "page"
PageValue == PyList(<<Document(PyStr(<<"h", "t", "t", "p", "s", ":", "/", "/", "b">>))>>)

\* what an earlier stage or call may have left under "links"
OldLinks == PyList(<<PyStr(<<"h", "t", "t", "p", ":", "/", "/", "o", "l", "d">>)>>)

\* the mapping with doc, page and links as given, a key left out when its value is Absent
MkState(d, p, l) ==
    LET val(k) == CASE k = "doc" -> d [] k = "page" -> p [] OTHER -> l
    IN  [k \in {x \in Keys : val(x) # Absent} |-> val(k)]

Inputs == {"doc", "page"}
Outputs == {<<"links", "page">>, <<"doc">>}

\* what the chain prompt | llm_model | JsonOutputParser gives back: any JSON value, or it raises
StubLink ==
    <<"h", "t", "t", "p", "s", ":", "/", "/", "s", "t", "u", "b", ".", "e", "x", "a",
      "m", "p", "l", "e">>
ChainRaises == [kind |-> "raise"]
Answers == {
    PyList(<<PyStr(StubLink)>>),
    PyStr(<<"n", "o">>),
    PyDict(<<PyStr(<<"u", "r", "l">>)>>),
    PyInt(7),
    ChainRaises }

----------------------------------------------------------------------------
(* The mapping operations *)

\* state.get(k)
Get(m, k) == IF k \in DOMAIN m THEN m[k] ELSE None

\* state.update({k: v})
Update(m, k, v) == [x \in DOMAIN m \cup {k} |-> IF x = k THEN v ELSE m[x]]

\* the key execute reads the chunks from (line 72)
InputKey(sel) == "doc"

\* variant: the last output key is written
OutputKey_Last(out) == out[Len(out)]

\* the key execute writes (line 126)
OutputKey(out) == out[1]

Event(e, n, a) == [ev |-> e, i |-> n, arg |-> a]

Ended == {"returned", "raised"}

----------------------------------------------------------------------------
(* The state machine *)

Init ==
    /\ input \in Inputs
    /\ output \in Outputs
    /\ state \in {MkState(d, r[1], r[2]) : d \in DocValues \cup {Absent},
                                           r \in {<<Absent, Absent>>, <<PageValue, OldLinks>>}}
    /\ pc = "idle"
    /\ parsed_content_chunks = None
    /\ relevant_links = <<>>
    /\ i = 0
    /\ chunk = None
    /\ err = "none"
    /\ ret = None
    /\ state0 = state
    /\ events = <<>>
    /\ prev = [ended |-> "none", out |-> None, events |-> <<>>]
    /\ calls = 0

\* variant: the list of links outlives the call
Execute_KeepLinks ==
    /\ pc \in {"idle", "returned"}
    /\ calls < MaxCalls
    /\ calls' = calls + 1
    /\ prev' = [ended |-> pc, out |-> Get(state, output[1]), events |-> events]
    /\ state0' = state
    /\ events' = <<Event("log_start", 0, None)>>
    /\ parsed_content_chunks' = Get(state, "doc")
    /\ i' = 0
    /\ chunk' = None
    /\ err' = "none"
    /\ ret' = None
    /\ pc' = "for"
    /\ UNCHANGED <<input, output, state, relevant_links>>

\* lines 69-75: the runner calls execute(state), at first or again on the state a
\* call returned; a call that raised ends the run of the pipeline
Execute ==
    /\ pc \in {"idle", "returned"}
    /\ calls < MaxCalls
    /\ calls' = calls + 1
    /\ prev' = [ended |-> pc, out |-> Get(state, OutputKey(output)), events |-> events]
    /\ state0' = state
    /\ events' = <<Event("log_start", 0, None)>>
    /\ parsed_content_chunks' = Get(state, InputKey(input))
    /\ relevant_links' = <<>>
    /\ i' = 0
    /\ chunk' = None
    /\ err' = "none"
    /\ ret' = None
    /\ pc' = "for"
    /\ UNCHANGED <<input, output, state>>

\* variant: the loop takes every second chunk
ForNext_Stride ==
    /\ pc = "for"
    /\ IF ~Iterable(parsed_content_chunks)
       THEN /\ pc' = "raised"
            /\ err' = "TypeError"
            /\ UNCHANGED <<i, chunk>>
       ELSE IF i + 2 <= Len(Iter(parsed_content_chunks))
       THEN /\ i' = i + 2
            /\ chunk' = Iter(parsed_content_chunks)[i + 2]
            /\ pc' = "try"
            /\ UNCHANGED err
       ELSE /\ pc' = "update"
            /\ UNCHANGED <<i, chunk, err>>
    /\ UNCHANGED <<input, output, state, parsed_content_chunks, relevant_links, ret,
                   state0, events, prev, calls>>

\* lines 77-83: the for statement takes the next chunk, ends, or fails to iterate
ForNext ==
    /\ pc = "for"
    /\ IF ~Iterable(parsed_content_chunks)
       THEN /\ pc' = "raised"
            /\ err' = "TypeError"
            /\ UNCHANGED <<i, chunk>>
       ELSE IF i < Len(Iter(parsed_content_chunks))
       THEN /\ i' = i + 1
            /\ chunk' = Iter(parsed_content_chunks)[i + 1]
            /\ pc' = "try"
            /\ UNCHANGED err
       ELSE /\ pc' = "update"
            /\ UNCHANGED <<i, chunk, err>>
    /\ UNCHANGED <<input, output, state, parsed_content_chunks, relevant_links, ret,
                   state0, events, prev, calls>>

\* what the try block raises for chunk c, "none" if it runs through (line 86)
TryFault(c) ==
    IF ~HasPageContent(c) THEN "AttributeError"
    ELSE IF StrFaults(c.page_content) THEN "TypeError"
    ELSE "none"

\* line 86: the links the regular expression finds in the content of chunk c
RegexLinks(c) == AsStrs(FindAll(Str(c.page_content)))

\* lines 84-88: the try block
TryRegex ==
    /\ pc = "try"
    /\ IF TryFault(chunk) # "none"
       THEN /\ pc' = "except"
            /\ events' = events \o <<Event("regex_fault", i, None)>>
            /\ UNCHANGED relevant_links
       ELSE /\ relevant_links' = relevant_links \o RegexLinks(chunk)
            /\ events' = events \o <<Event("regex", i, None),
                                      Event("extend", i, PyList(RegexLinks(chunk)))>>
            /\ pc' = "for"
    /\ UNCHANGED <<input, output, state, parsed_content_chunks, i, chunk, err, ret,
                   state0, prev, calls>>

\* variant: the fault of the try block is not caught
Except_Uncaught ==
    /\ pc = "except"
    /\ pc' = "raised"
    /\ err' = TryFault(chunk)
    /\ UNCHANGED <<input, output, state, parsed_content_chunks, relevant_links, i, chunk,
                   ret, state0, events, prev, calls>>

\* lines 89-91: the except clause logs the fault
Except ==
    /\ pc = "except"
    /\ events' = events \o <<Event("log_fallback", i, None)>>
    /\ pc' = "fallback"
    /\ UNCHANGED <<input, output, state, parsed_content_chunks, relevant_links, i, chunk,
                   err, ret, state0, prev, calls>>

\* variant: a chain that raises is swallowed and the chunk skipped
Fallback_Skip ==
    /\ pc = "fallback"
    /\ IF ~HasPageContent(chunk)
       THEN /\ pc' = "raised"
            /\ err' = "AttributeError"
            /\ UNCHANGED <<relevant_links, events>>
       ELSE \E answer \in Answers :
            LET called == events \o <<Event("invoke", i, chunk.page_content),
                                      Event("answer", i, answer)>> IN
            IF answer = ChainRaises
            THEN /\ pc' = "for"
                 /\ events' = called \o <<Event("extend", i, PyList(<<>>))>>
                 /\ UNCHANGED <<relevant_links, err>>
            ELSE IF ~Iterable(answer)
            THEN /\ pc' = "raised"
                 /\ err' = "TypeError"
                 /\ events' = called
                 /\ UNCHANGED relevant_links
            ELSE /\ relevant_links' = relevant_links \o Iter(answer)
                 /\ events' = called \o <<Event("extend", i, PyList(Iter(answer)))>>
                 /\ pc' = "for"
                 /\ UNCHANGED err
    /\ UNCHANGED <<input, output, state, parsed_content_chunks, i, chunk, ret, state0,
                   prev, calls>>

\* lines 116-124: the chain is built, invoked with the chunk's content, its answer appended
Fallback ==
    /\ pc = "fallback"
    /\ IF ~HasPageContent(chunk)
       THEN /\ pc' = "raised"
            /\ err' = "AttributeError"
            /\ UNCHANGED <<relevant_links, events>>
       ELSE \E answer \in Answers :
            LET called == events \o <<Event("invoke", i, chunk.page_content),
                                      Event("answer", i, answer)>> IN
            IF answer = ChainRaises
            THEN /\ pc' = "raised"
                 /\ err' = "FallbackFault"
                 /\ events' = called
                 /\ UNCHANGED relevant_links
            ELSE IF ~Iterable(answer)
            THEN /\ pc' = "raised"
                 /\ err' = "TypeError"
                 /\ events' = called
                 /\ UNCHANGED relevant_links
            ELSE /\ relevant_links' = relevant_links \o Iter(answer)
                 /\ events' = called \o <<Event("extend", i, PyList(Iter(answer)))>>
                 /\ pc' = "for"
                 /\ UNCHANGED err
    /\ UNCHANGED <<input, output, state, parsed_content_chunks, i, chunk, ret, state0,
                   prev, calls>>

\* lines 126-127: the output key is written and the state returned
UpdateState ==
    /\ pc = "update"
    /\ state' = Update(state, OutputKey(output), PyList(relevant_links))
    /\ ret' = state'
    /\ pc' = "returned"
    /\ UNCHANGED <<input, output, parsed_content_chunks, relevant_links, i, chunk, err,
                   state0, events, prev, calls>>

\* the statements of execute after its entry
Step == ForNext \/ TryRegex \/ Except \/ Fallback \/ UpdateState

Next == Execute \/ Step

Spec == Init /\ [][Next]_vars

----------------------------------------------------------------------------
(* What the properties speak about *)

\* the chunks the running call iterates over
Chunks == IF Iterable(parsed_content_chunks) THEN Iter(parsed_content_chunks) ELSE <<>>

\* the positions of the events of kind e for chunk n
EventsAt(e, n) == {j \in 1..Len(events) : events[j].ev = e /\ events[j].i = n}

HasEvent(e, n) == EventsAt(e, n) # {}

\* no log line of a fallback and no chain invocation among es
RegexOnly(es) == \A j \in 1..Len(es) : es[j].ev \notin {"regex_fault", "log_fallback", "invoke", "answer"}

\* the links appended so far, in the order they were appended
RECURSIVE Appended(_)
Appended(es) ==
    IF Len(es) = 0 THEN <<>>
    ELSE IF es[1].ev = "extend" THEN es[1].arg.items \o Appended(Tail(es))
    ELSE Appended(Tail(es))

\* The URL pattern, stated as a property of a span s..e of the text t: a scheme,
\* then one or more characters none of which is a stop, as many as there are.
UrlStops == {" ", "\t", "\n", "\r", "\f", "\"", "<", ">", "]"}

IsUrlSpan(t, s, e) ==
    \E b \in {s + 7, s + 8} :
        /\ b <= e
        /\ SubSeq(t, s, b - 1) \in {<<"h", "t", "t", "p", ":", "/", "/">>,
                                    <<"h", "t", "t", "p", "s", ":", "/", "/">>}
        /\ \A k \in b..e : t[k] \notin UrlStops
        /\ e = Len(t) \/ t[e + 1] \in UrlStops

\* a span begins where the scheme does, with an "h"
UrlSpans(t) ==
    {sp \in {s \in 1..Len(t) : t[s] = "h"} \X (1..Len(t)) : IsUrlSpan(t, sp[1], sp[2])}

\* the non-overlapping ones, leftmost first: a span counts iff every counted span
\* that begins before it has ended before it
CountedSpans(t) ==
    CHOOSE S \in SUBSET UrlSpans(t) :
        \A sp \in UrlSpans(t) :
            sp \in S <=> \A q \in S : q[1] < sp[1] => q[2] < sp[1]

RECURSIVE InOrder(_, _)
InOrder(t, S) ==
    IF S = {} THEN <<>>
    ELSE LET first == CHOOSE sp \in S : \A q \in S : sp[1] <= q[1]
         IN  <<PyStr(SubSeq(t, first[1], first[2]))>> \o InOrder(t, S \ {first})

\* the matches of the URL pattern in t, in order of appearance
UrlMatches(t) == InOrder(t, CountedSpans(t))

\* the matches of all the chunks, in chunk order
RECURSIVE AllUrlMatches(_)
AllUrlMatches(cs) ==
    IF Len(cs) = 0 THEN <<>>
    ELSE UrlMatches(cs[1].page_content.s) \o AllUrlMatches(Tail(cs))

\* v is a list of chunks that all have string content
TextChunks(v) ==
    /\ v.kind = "list"
    /\ \A k \in 1..Len(v.items) :
        /\ v.items[k].kind = "Document"
        /\ v.items[k].page_content.kind = "str"

----------------------------------------------------------------------------
(* The properties *)

\* C1: when the chunk list under "doc" holds only chunks with string content, the
\* call does not fail, the chain is never invoked, and the call returns with the
\* output key holding the matches of the URL pattern of all chunks, in chunk order
\* and then in order of appearance, duplicates kept.
C1_RegexPath ==
    (pc # "idle" /\ TextChunks(Get(state0, "doc"))) =>
        /\ pc # "raised"
        /\ RegexOnly(events)
        /\ pc = "returned" =>
            /\ state[output[1]] = PyList(AllUrlMatches(Get(state0, "doc").items))
            /\ ret = state

\* the scenario of the specification: two chunks, two links in the first, none in the second
C1_Witness ==
    /\ pc = "returned"
    /\ state0["doc"] = PyList(ScenarioChunks)
    /\ output[1] = "links"
    /\ state["links"] =
          PyList(<<PyStr(<<"h", "t", "t", "p", "s", ":", "/", "/", "a", ".", "c", "o", "m", "/", "x">>),
                   PyStr(<<"h", "t", "t", "p", ":", "/", "/", "b", ".", "o", "r", "g">>)>>)
    /\ RegexOnly(events)

\* chunk n of the running call has non-string content
NonString(n) ==
    /\ Chunks[n].kind = "Document"
    /\ Chunks[n].page_content.kind # "str"

\* the call has left the try block, and the except clause if it entered it, for chunk n
Past(n) == HasEvent("regex", n) \/ HasEvent("log_fallback", n)

\* the chain was invoked for chunk n with its content, and what it answered is
\* what the chunk contributed
FellBack(n) ==
    /\ HasEvent("log_fallback", n)
    /\ \E j \in EventsAt("invoke", n) : events[j].arg = Chunks[n].page_content
    /\ \A j \in EventsAt("extend", n) :
          \E a \in EventsAt("answer", n) :
              /\ a < j
              /\ events[a].arg.kind = "list" => events[j].arg = events[a].arg

\* C2 as stated: every chunk with non-string content takes the fallback path.
C2_AsStated ==
    \A n \in 1..Len(Chunks) :
        (NonString(n) /\ HasEvent("extend", n)) => FellBack(n)

\* C2: a chunk with non-string content takes the fallback path when converting
\* the content to a string faults: the fallback is logged, the chain is invoked
\* with the content and the sequence it answers is what the chunk contributes.
\* Content that converts (a number, None, a list) takes the regex path on its
\* string form: no log line, no chain invocation, the matches contributed.
C2_NonStringContent ==
    \A n \in 1..Len(Chunks) :
        NonString(n) =>
            IF Chunks[n].page_content.kind = "Unprintable"
            THEN /\ ~HasEvent("regex", n)
                 /\ HasEvent("extend", n) => FellBack(n)
            ELSE /\ ~HasEvent("regex_fault", n)
                 /\ ~HasEvent("log_fallback", n)
                 /\ ~HasEvent("invoke", n)
                 /\ \A j \in EventsAt("extend", n) :
                       events[j].arg = PyList(UrlMatches(
                           CASE Chunks[n].page_content.kind = "int" -> <<"1", "2", "3", "4", "5">>
                             [] Chunks[n].page_content.kind = "None" -> <<"N", "o", "n", "e">>
                             [] OTHER -> <<"[", "'", "h", "t", "t", "p", ":", "/", "/", "a", "'", "]">>))

\* one chunk whose content cannot be converted, the chain answering one link
C2_Witness ==
    /\ pc = "returned"
    /\ state0["doc"] = PyList(<<Document(Unprintable)>>)
    /\ HasEvent("log_fallback", 1)
    /\ output[1] = "links"
    /\ state["links"] = PyList(<<PyStr(StubLink)>>)

\* C3 as stated: with the input key absent or not holding a list, the call fails
\* with MissingInput and the state is as it was.
C3_MissingInput ==
    (pc \in Ended /\ (input \notin DOMAIN state0 \/ Get(state0, input).kind # "list")) =>
        /\ pc = "raised"
        /\ err = "MissingInput"
        /\ state = state0

\* C4 as stated: a parsed answer that is not a list fails the call and nothing is written.
C4_AsStated ==
    \A j \in 1..Len(events) :
        (events[j].ev = "answer" /\ events[j].arg.kind \notin {"list", "raise"}) =>
            /\ pc = "raised"
            /\ state = state0

\* C4: a parsed answer that cannot be iterated (a number) fails the call with
\* the state as it was and nothing returned; an answer that is a string or a
\* mapping does not fail it: its characters, or its keys, are appended.
C4_NotIterable ==
    \A j \in 1..Len(events) :
        events[j].ev = "answer" =>
            LET a == events[j].arg IN
            /\ a.kind = "int" =>
                  /\ pc = "raised"
                  /\ err = "TypeError"
                  /\ state = state0
                  /\ ret = None
                  /\ j = Len(events)
            /\ a.kind = "str" =>
                  /\ j < Len(events)
                  /\ events[j + 1] =
                        Event("extend", events[j].i, PyList([k \in 1..Len(a.s) |-> PyStr(<<a.s[k]>>)]))
            /\ a.kind = "dict" =>
                  /\ j < Len(events)
                  /\ events[j + 1] = Event("extend", events[j].i, PyList(a.keys))

\* links of an earlier chunk were accumulated when the chain answered a number
C4_Witness ==
    /\ pc = "raised"
    /\ err = "TypeError"
    /\ relevant_links # <<>>
    /\ events[Len(events)] = Event("answer", i, PyInt(7))
    /\ state = state0

C6_InputKey ==
    (pc # "idle" /\ input \in DOMAIN state0) => parsed_content_chunks = state0[input]

\* the previous call returned and took the regex path for every chunk
RepeatedRegexCall == calls >= 2 /\ prev.ended = "returned" /\ RegexOnly(prev.events)

\* C7 as stated: a call repeated on the state a regex-only call returned takes
\* no fallback and gives the same output, whatever the output key.
C7_AsStated ==
    RepeatedRegexCall =>
        /\ RegexOnly(events)
        /\ pc # "raised"
        /\ pc = "returned" => state[output[1]] = prev.out

\* C7: the same, for an output key other than "doc", the key the chunks are read from.
C7_Idempotent ==
    (RepeatedRegexCall /\ output[1] # "doc") =>
        /\ RegexOnly(events)
        /\ pc # "raised"
        /\ pc = "returned" => state[output[1]] = prev.out

\* a second call that returned the links the first one found
C7_Witness ==
    /\ RepeatedRegexCall
    /\ pc = "returned"
    /\ output[1] = "links"
    /\ prev.out.kind = "list"
    /\ Len(prev.out.items) >= 1
    /\ state["links"] = prev.out

\* C8: once the chain has raised for chunk n the call has failed: nothing
\* happened after it, no later chunk was touched, nothing was returned and the
\* state is as it was when the call began.
C8_FallbackFault ==
    \A j \in 1..Len(events) :
        (events[j].ev = "answer" /\ events[j].arg = ChainRaises) =>
            /\ pc = "raised"
            /\ err = "FallbackFault"
            /\ j = Len(events)
            /\ \A k \in 1..Len(events) : events[k].i <= events[j].i
            /\ i = events[j].i
            /\ state = state0
            /\ ret = None

\* links of an earlier chunk were accumulated when the chain raised
C8_Witness ==
    /\ pc = "raised"
    /\ err = "FallbackFault"
    /\ relevant_links # <<>>
    /\ i = 2
    /\ state = state0

\* C9 as stated: after a fault of the regex step the call fails only if the
\* chain did not answer a sequence.
C9_AsStated ==
    (pc = "raised" /\ HasEvent("regex_fault", i)) =>
        \E j \in EventsAt("answer", i) : events[j].arg.kind # "list"

\* C9: a fault of the regex step is caught and the fallback logged.  For a chunk
\* that has content the chain is invoked, and the call fails only if the chain
\* did not answer a sequence; for a chunk without a content field the fallback
\* reads the content again, and the call fails with AttributeError, the chain
\* not invoked and the state as it was.
C9_Caught ==
    \A n \in 1..Len(Chunks) :
        HasEvent("regex_fault", n) =>
            /\ (pc = "except" /\ i = n) \/ HasEvent("log_fallback", n)
            /\ (pc = "raised" /\ i = n) =>
                  IF Chunks[n].kind = "Document"
                  THEN \E j \in EventsAt("answer", n) : events[j].arg.kind # "list"
                  ELSE /\ err = "AttributeError"
                       /\ ~HasEvent("invoke", n)
                       /\ state = state0
            /\ (HasEvent("log_fallback", n) /\ ~(pc = "fallback" /\ i = n)
                    /\ Chunks[n].kind = "Document") => HasEvent("invoke", n)

\* the regex step faulted, the chain answered a list and the call returned
C9_Witness ==
    /\ pc = "returned"
    /\ \E n \in 1..Len(Chunks) :
          /\ HasEvent("regex_fault", n)
          /\ \E j \in EventsAt("answer", n) : events[j].arg.kind = "list"
    /\ output[1] \in DOMAIN state

\* the order of the events of a call
PhaseOrder ==
    \* chunk numbers never go back
    /\ \A j \in 1..(Len(events) - 1) : events[j].i <= events[j + 1].i
    /\ \A n \in 1..Len(Chunks) :
          LET invoked == EventsAt("invoke", n)
              contributed == EventsAt("extend", n - 1)
          IN  \* the chain is invoked at most once, after the regex fault and its log line
              /\ Cardinality(invoked) <= 1
              /\ Cardinality(EventsAt("regex", n) \cup EventsAt("regex_fault", n)) <= 1
              /\ \A j \in invoked :
                    \E f \in EventsAt("regex_fault", n), l \in EventsAt("log_fallback", n) :
                        f < l /\ l < j
              \* a chunk is begun after the one before it has contributed
              /\ n > 1 =>
                    \A j \in 1..Len(events) :
                        events[j].i = n => \E k \in contributed : k < j
    \* the state is written once, at the return, after every chunk has contributed
    /\ state # state0 => pc = "returned"
    /\ pc \in {"update", "returned"} => \A n \in 1..Len(Chunks) : HasEvent("extend", n)
    /\ pc = "returned" => ret = state

\* an upper bound on the statements the running call has still to execute
StepsLeft ==
    CASE pc = "for" -> 4 * (Len(Chunks) - i) + 2
      [] pc = "try" -> 4 * (Len(Chunks) - i) + 5
      [] pc = "except" -> 4 * (Len(Chunks) - i) + 4
      [] pc = "fallback" -> 4 * (Len(Chunks) - i) + 3
      [] pc = "update" -> 1
      [] OTHER -> 0

\* C10: the chunks are taken in order, the regex step of a chunk before its
\* fallback, the chain invoked only after the fault and its log line and at most
\* once per chunk, a chunk begun only after the one before it contributed; and a
\* call that has begun ends, returning after the one write or failing: it can
\* always take its next statement, and every statement leaves fewer to execute.
C10_Phases ==
    /\ []PhaseOrder
    /\ [](pc \notin Ended \cup {"idle"} => (StepsLeft > 0 /\ ENABLED Step))
    /\ [][Step => StepsLeft' < StepsLeft]_vars

\* a call that returned after the chain was invoked for its second chunk
C10_Witness ==
    /\ pc = "returned"
    /\ HasEvent("regex", 1)
    /\ HasEvent("invoke", 2)
    /\ Len(state[output[1]].items) >= 2

====
